---- MODULE Spec2Model ----
(***************************************************************************)
(* LlamaIndex documentation MCP server: the JSON-RPC dispatcher            *)
(* (app/mcp_server.py), its HTTP transport (app/routes.py, app/main.py,    *)
(* app/middleware.py) and the documentation fetch/cache/search layer       *)
(* (llamaindex_doc_server.py).                                             *)
(*                                                                         *)
(* Python strings that the code inspects character by character (page      *)
(* text, resource names and descriptions, search queries) are sequences of *)
(* one-character strings.  JSON scalars that are only compared or copied   *)
(* (ids, method names, tool names, URIs) are TLA+ strings holding the      *)
(* value; "null" stands for JSON null / Python None.                       *)
(***************************************************************************)
EXTENDS Integers, Sequences, FiniteSets, TLC

VARIABLES
    started,      \* the lifespan hook has run mcp_server.initialize()
    resource_limit,  \* lifespan: int(os.getenv("MCP_RESOURCE_LIMIT", "50"))
    index,        \* history: what the GET of the site's index page ended in
    resources,    \* LlamaIndexDocServer.resources: the catalog, a list
    cached_docs,  \* LlamaIndexDocServer.cached_docs: uri -> extracted text
    slot,         \* the requests being handled, one record per handler task
    hist          \* history: per uri, what earlier fetch calls returned

vars == <<started, resource_limit, index, resources, cached_docs, slot, hist>>

-----------------------------------------------------------------------------
(* Python string operations used by the code.                              *)

UpperToLower ==
    [A |-> "a", B |-> "b", C |-> "c", D |-> "d", E |-> "e", F |-> "f", G |-> "g",
     H |-> "h", I |-> "i", J |-> "j", K |-> "k", L |-> "l", M |-> "m", N |-> "n",
     O |-> "o", P |-> "p", Q |-> "q", R |-> "r", S |-> "s", T |-> "t", U |-> "u",
     V |-> "v", W |-> "w", X |-> "x", Y |-> "y", Z |-> "z"]

\* str.lower()
lower(s) ==
    [i \in 1..Len(s) |-> IF s[i] \in DOMAIN UpperToLower THEN UpperToLower[s[i]] ELSE s[i]]

\* sub in s
Contains(sub, s) ==
    \E i \in 0..(Len(s) - Len(sub)) : SubSeq(s, i + 1, i + Len(sub)) = sub

\* s[:n] for n >= 0
Take(s, n) == SubSeq(s, 1, IF n < Len(s) THEN n ELSE Len(s))

\* str.replace(a, b) for single characters
replace(s, a, b) == [i \in 1..Len(s) |-> IF s[i] = a THEN b ELSE s[i]]

\* str.split('\n')
RECURSIVE split(_)
split(s) ==
    IF \A i \in 1..Len(s) : s[i] # "\n"
    THEN <<s>>
    ELSE LET k == CHOOSE i \in 1..Len(s) :
                      s[i] = "\n" /\ \A j \in 1..(i - 1) : s[j] # "\n"
         IN  <<SubSeq(s, 1, k - 1)>> \o split(SubSeq(s, k + 1, Len(s)))

\* '\n'.join(lines)
RECURSIVE join(_)
join(lines) ==
    IF lines = <<>> THEN <<>>
    ELSE IF Len(lines) = 1 THEN lines[1]
    ELSE lines[1] \o <<"\n">> \o join(Tail(lines))

\* str(n) for a natural number n
Digit(d) == <<"0", "1", "2", "3", "4", "5", "6", "7", "8", "9">>[d + 1]

RECURSIVE str(_)
str(n) == IF n < 10 THEN <<Digit(n)>> ELSE str(n \div 10) \o <<Digit(n % 10)>>

-----------------------------------------------------------------------------
(* The documentation site and the catalog (LlamaIndexDocServer, as           *)
(* llamaindex_doc_server.py defines it).                                   *)

base_url == "https://docs.llamaindex.ai"

\* 'LlamaIndex Documentation: '
DescriptionPrefix ==
    <<"L","l","a","m","a","I","n","d","e","x"," ","D","o","c","u","m","e","n","t","a","t",
      "i","o","n",":"," ">>
\* 'llamaindex_'
DefaultNamePrefix ==
    <<"l","l","a","m","a","i","n","d","e","x","_">>
\* 'llamaindex_doc_'
DocNamePrefix ==
    <<"l","l","a","m","a","i","n","d","e","x","_","d","o","c","_">>

\* 'Getting Started'
TitleGettingStarted ==
    <<"G","e","t","t","i","n","g"," ","S","t","a","r","t","e","d">>
\* 'Data Loading'
TitleDataLoading ==
    <<"D","a","t","a"," ","L","o","a","d","i","n","g">>
\* 'Indexing'
TitleIndexing ==
    <<"I","n","d","e","x","i","n","g">>
\* 'Querying'
TitleQuerying ==
    <<"Q","u","e","r","y","i","n","g">>
\* 'Agents'
TitleAgents ==
    <<"A","g","e","n","t","s">>

\* default_docs of _add_default_resources, each path already joined to base_url
default_docs ==
    << [uri |-> "https://docs.llamaindex.ai/en/stable/getting_started/starter_example.html",
        title |-> TitleGettingStarted],
       [uri |-> "https://docs.llamaindex.ai/en/stable/module_guides/loading/",
        title |-> TitleDataLoading],
       [uri |-> "https://docs.llamaindex.ai/en/stable/module_guides/indexing/",
        title |-> TitleIndexing],
       [uri |-> "https://docs.llamaindex.ai/en/stable/module_guides/querying/",
        title |-> TitleQuerying],
       [uri |-> "https://docs.llamaindex.ai/en/stable/module_guides/agents/",
        title |-> TitleAgents] >>

MCPResource(uri, name, description, mime_type) ==
    [uri |-> uri, name |-> name, description |-> description, mime_type |-> mime_type]

\* _add_default_resources: appends the five fallback resources to the catalog
add_default_resources(res) ==
    res \o [k \in 1..Len(default_docs) |->
              MCPResource(default_docs[k].uri,
                          DefaultNamePrefix \o replace(lower(default_docs[k].title), " ", "_"),
                          DescriptionPrefix \o default_docs[k].title,
                          "text/html")]

\* 'Examples'
TitleExamples ==
    <<"E","x","a","m","p","l","e","s">>
\* 'API'
TitleApi ==
    <<"A","P","I">>

\* Links of the index page as find_all('a', href=True) yields them.  href_form is
\* the shape of the href text, url is urljoin(base_url, href), title is
\* get_text(strip=True).  The shapes: "root_relative" ('/path'), "relative"
\* ('page.html'), "absolute_site" (a URL of the site's host), "absolute_other" (a
\* URL of another host), "absolute_mention" (a URL of another host that holds the
\* site's name in its text), "protocol_relative" ('//host/path', another host).
Link(form, url, title) == [href_form |-> form, url |-> url, title |-> title]

LinkExamples == Link("root_relative", "https://docs.llamaindex.ai/en/stable/examples/", TitleExamples)
LinkAgents   == Link("absolute_site", "https://docs.llamaindex.ai/en/stable/module_guides/agents/", TitleAgents)
LinkApi      == Link("root_relative", "https://docs.llamaindex.ai/en/stable/api_reference/", TitleApi)
LinkOther    == Link("absolute_other", "https://example.org/page", TitleExamples)
LinkRelative == Link("relative", "https://docs.llamaindex.ai/changes.html", TitleExamples)

\* the number of links of a long index page
BigPageLinks == 60

\* an index page with more links than the default cap, all to different pages
BigPage ==
    [k \in 1..BigPageLinks |->
        Link("root_relative", "https://docs.llamaindex.ai/en/stable/page/" \o ToString(k),
             TitleExamples)]

\* 'Guides'
TitleGuides ==
    <<"G","u","i","d","e","s">>

LinkGuides == Link("root_relative", "https://docs.llamaindex.ai/en/stable/guides/", TitleGuides)

\* The index pages the site may serve.
IndexPages ==
    { <<LinkExamples, LinkAgents>>,
      <<LinkAgents, LinkApi, LinkOther, LinkExamples, LinkAgents>>,
      <<LinkRelative, LinkExamples, LinkExamples>>,
      <<LinkApi, LinkOther>> }

\* doc_links[:50]
DocLinksCap == 50

\* the href tests of _fetch_doc_structure: href.startswith('/') or
\* href.startswith('http'), then 'docs.llamaindex.ai' in href or href.startswith('/'),
\* then a title longer than 3 characters
IsDocLink(link) ==
    /\ link.href_form \in {"root_relative", "protocol_relative", "absolute_site",
                           "absolute_other", "absolute_mention"}
    /\ link.href_form \in {"absolute_site", "absolute_mention", "root_relative",
                           "protocol_relative"}
    /\ Len(link.title) > 3

\* one resource per link, seen before or not
RECURSIVE AddDiscovered_all(_, _, _)
AddDiscovered_all(res, links, seen_urls) ==
    IF links = <<>> THEN res
    ELSE AddDiscovered_all(
             Append(res, MCPResource(Head(links).url,
                                     DocNamePrefix \o str(Len(res)),
                                     DescriptionPrefix \o Head(links).title,
                                     "text/html")),
             Tail(links), seen_urls \cup {Head(links).url})

\* the loop over doc_links[:50]: one resource per url not seen before
RECURSIVE AddDiscovered(_, _, _)
AddDiscovered(res, links, seen_urls) ==
    IF links = <<>> THEN res
    ELSE LET l == Head(links)
         IN  IF l.url \in seen_urls
             THEN AddDiscovered(res, Tail(links), seen_urls)
             ELSE AddDiscovered(
                      Append(res, MCPResource(l.url,
                                              DocNamePrefix \o str(Len(res)),
                                              DescriptionPrefix \o l.title,
                                              "text/html")),
                      Tail(links), seen_urls \cup {l.url})

\* What the GET of the index page can end in.
IndexOutcomes ==
    {[kind |-> "ok", page |-> p] : p \in IndexPages}
        \cup {[kind |-> k, page |-> <<>>] : k \in {"RequestError", "HTTPStatusError", "ValueError"}}

\* index pages that repeat a link near their head: a short one, and a long one
\* whose repeated link lies within the first DocLinksCap links
RepeatPages == {<<LinkExamples, LinkExamples, LinkAgents>>, <<BigPage[1]>> \o BigPage}

\* index pages with links to another host whose href begins with a slash
\* ('//example.org/page') or holds the site's name
\* ('https://example.org/page?ref=docs.llamaindex.ai')
OffSitePages ==
    { <<LinkExamples, Link("protocol_relative", "https://example.org/page", TitleExamples)>>,
      <<Link("absolute_mention", "https://example.org/page?ref=docs.llamaindex.ai",
             TitleExamples), LinkAgents>> }

\* the outcomes of the GET of the index page, the long pages among them
CatalogOutcomes ==
    IndexOutcomes
        \cup {[kind |-> "ok", page |-> p] : p \in {BigPage} \cup RepeatPages \cup OffSitePages}

\* values of MCP_RESOURCE_LIMIT
ResourceLimits == {0, 2, DocLinksCap}

\* The maximum to which discovery truncates: lifespan passes resource_limit through
\* MCPServer.initialize to the catalog's initialize, where it stands for the 50 of
\* doc_links[:50].
doc_links_cap(limit) == limit

\* _fetch_doc_structure: the catalog it leaves, and whether an exception leaves it
fetch_doc_structure(res, outcome, limit) ==
    CASE outcome.kind = "ok" ->
            [resources |-> AddDiscovered(res,
                               Take(SelectSeq(outcome.page, IsDocLink),
                                    doc_links_cap(limit)), {}),
             raised |-> "none"]
      [] outcome.kind = "RequestError" ->
            [resources |-> add_default_resources(res), raised |-> "none"]
      [] outcome.kind = "ValueError" ->
            [resources |-> add_default_resources(res), raised |-> "none"]
      [] outcome.kind = "HTTPStatusError" ->
            \* raise_for_status(): neither except clause of _fetch_doc_structure matches
            [resources |-> res, raised |-> "HTTPStatusError"]

\* LlamaIndexDocServer.initialize: every exception of _fetch_doc_structure is logged
initialize(res, outcome, limit) == fetch_doc_structure(res, outcome, limit).resources

-----------------------------------------------------------------------------
(* fetch_resource_content                                                  *)

\* 'HTTP error fetching content: '
HttpErrorPrefix ==
    <<"H","T","T","P"," ","e","r","r","o","r"," ","f","e","t","c","h","i","n","g"," ","c",
      "o","n","t","e","n","t",":"," ">>
\* 'Unexpected error fetching content: '
UnexpectedErrorPrefix ==
    <<"U","n","e","x","p","e","c","t","e","d"," ","e","r","r","o","r"," ","f","e","t","c",
      "h","i","n","g"," ","c","o","n","t","e","n","t",":"," ">>

\* str(e) of the exceptions the outbound GET raises
\* 'connect failed'
MsgRequestError ==
    <<"c","o","n","n","e","c","t"," ","f","a","i","l","e","d">>
\* '404 Not Found'
MsgStatusError ==
    <<"4","0","4"," ","N","o","t"," ","F","o","u","n","d">>
\* 'bad markup'
MsgValueError ==
    <<"b","a","d"," ","m","a","r","k","u","p">>
\* 'Invalid type for url'
MsgTypeError ==
    <<"I","n","v","a","l","i","d"," ","t","y","p","e"," ","f","o","r"," ","u","r","l">>
\* 'missing protocol'
MsgUnsupportedProtocol ==
    <<"m","i","s","s","i","n","g"," ","p","r","o","t","o","c","o","l">>

\* Extracted page texts the site may serve for a URL.
\* 'Agents guide\nBuild agents\nMore\nagents again\nAGENTS last'
PageA ==
    <<"A","g","e","n","t","s"," ","g","u","i","d","e","\n","B","u","i","l","d"," ","a","g",
      "e","n","t","s","\n","M","o","r","e","\n","a","g","e","n","t","s"," ","a","g","a",
      "i","n","\n","A","G","E","N","T","S"," ","l","a","s","t">>
\* 'Loading data'
PageB ==
    <<"L","o","a","d","i","n","g"," ","d","a","t","a">>

PageTexts == {PageA, PageB}

\* the length of the long lines of a page, without the word they end in
LongLineLen == 63

\* a line of n letters followed by 'Docs'
LongLine(n) == [k \in 1..n |-> "y"] \o <<"D", "o", "c", "s">>

\* Pages with lines that hold 'docs' in either case: five short lines, four of
\* them holding it; three lines that join to 203 characters, to 200 characters
\* and to 201 characters.
\* 'Docs home\nnothing here\nread the docs\nDOCS again\nmore docs'
PageDocs ==
    <<"D","o","c","s"," ","h","o","m","e","\n","n","o","t","h","i","n","g"," ","h","e","r",
      "e","\n","r","e","a","d"," ","t","h","e"," ","d","o","c","s","\n","D","O","C","S"," ",
      "a","g","a","i","n","\n","m","o","r","e"," ","d","o","c","s">>
PageLong ==
    LongLine(LongLineLen) \o <<"\n">> \o LongLine(LongLineLen) \o <<"\n", "x", "\n">>
        \o LongLine(LongLineLen)
PageExact ==
    LongLine(LongLineLen - 1) \o <<"\n">> \o LongLine(LongLineLen - 1) \o <<"\n">>
        \o LongLine(LongLineLen - 1) \o <<"\n">> \o LongLine(LongLineLen)
PageOver ==
    LongLine(LongLineLen - 1) \o <<"\n">> \o LongLine(LongLineLen - 1) \o <<"\n">>
        \o LongLine(LongLineLen)

SearchPageTexts == {PageA, PageDocs, PageLong, PageExact, PageOver}

\* Values a uri argument can hold.  Strings are themselves; the others are marked.
UriNone       == "<None>"                     \* key absent, or JSON null
UriEmpty      == ""                           \* the empty string
UriList       == "<list>"                     \* a non-empty JSON array (unhashable)
UriNumber     == "<number>"                   \* a non-zero JSON number
UriNoScheme   == "docs/page"                  \* a string that names no protocol
UriMalformed  == "https://docs.llamaindex.ai:port/"  \* a string httpx cannot parse
UriOutside    == "https://example.org/page"   \* a well-formed URL outside the catalog
UriAgents     == "https://docs.llamaindex.ai/en/stable/module_guides/agents/"
UriExamples   == "https://docs.llamaindex.ai/en/stable/examples/"

\* the URLs for which the client sends a request
WellFormedUrls ==
    {default_docs[k].uri : k \in 1..Len(default_docs)}
        \cup {UriOutside, UriExamples, "https://docs.llamaindex.ai/changes.html",
              "https://docs.llamaindex.ai/en/stable/api_reference/"}
        \cup {BigPage[k].url : k \in 1..BigPageLinks} \cup {LinkGuides.url}

\* What an outbound GET of a well-formed URL, followed by raise_for_status() and
\* the text extraction, can end in.
FetchOutcomes ==
    {[kind |-> "ok", text |-> t] : t \in PageTexts}
        \cup {[kind |-> "RequestError", text |-> MsgRequestError],
              [kind |-> "HTTPStatusError", text |-> MsgStatusError],
              [kind |-> "ValueError", text |-> MsgValueError]}

\* fetch_resource_content up to its first suspension: a cache hit returns, a
\* value the client rejects ends in the matching except clause (or escapes), a
\* well-formed URL is requested.
fetch_begin(uri, cache) ==
    CASE uri = UriList ->
            \* "uri in self.cached_docs" hashes the key, outside the try
            [kind |-> "raise", exc |-> "TypeError", text |-> <<>>]
      [] uri # UriList /\ uri \in DOMAIN cache ->
            [kind |-> "return", exc |-> "none", text |-> cache[uri]]
      [] uri \notin DOMAIN cache /\ uri \in {UriNone, UriNumber} ->
            [kind |-> "return", exc |-> "none", text |-> UnexpectedErrorPrefix \o MsgTypeError]
      [] uri \notin DOMAIN cache /\ uri \in {UriNoScheme, UriEmpty} ->
            [kind |-> "return", exc |-> "none", text |-> HttpErrorPrefix \o MsgUnsupportedProtocol]
      [] uri \notin DOMAIN cache /\ uri = UriMalformed ->
            \* httpx.InvalidURL is no httpx.HTTPError: no except clause matches
            [kind |-> "raise", exc |-> "InvalidURL", text |-> <<>>]
      [] uri \notin DOMAIN cache /\ uri \in WellFormedUrls ->
            [kind |-> "get", exc |-> "none", text |-> <<>>]

\* the description of a failed status stored like a page
fetch_end_status_stored(uri, outcome, cache) ==
    CASE outcome.kind = "ok" ->
            [text |-> outcome.text, cache |-> (uri :> outcome.text) @@ cache]
      [] outcome.kind = "HTTPStatusError" ->
            [text |-> HttpErrorPrefix \o outcome.text,
             cache |-> (uri :> (HttpErrorPrefix \o outcome.text)) @@ cache]
      [] outcome.kind \in {"RequestError", "TimeoutException"} ->
            [text |-> HttpErrorPrefix \o outcome.text, cache |-> cache]
      [] outcome.kind = "ValueError" ->
            [text |-> UnexpectedErrorPrefix \o outcome.text, cache |-> cache]

\* the extracted text returned without being stored
fetch_end_unstored(uri, outcome, cache) ==
    CASE outcome.kind = "ok" -> [text |-> outcome.text, cache |-> cache]
      [] outcome.kind \in {"RequestError", "TimeoutException", "HTTPStatusError"} ->
            [text |-> HttpErrorPrefix \o outcome.text, cache |-> cache]
      [] outcome.kind = "ValueError" ->
            [text |-> UnexpectedErrorPrefix \o outcome.text, cache |-> cache]

\* every returned text stored, the error descriptions too
fetch_end_memoized(uri, outcome, cache) ==
    LET text == CASE outcome.kind = "ok" -> outcome.text
                  [] outcome.kind \in {"RequestError", "TimeoutException", "HTTPStatusError"} ->
                        HttpErrorPrefix \o outcome.text
                  [] outcome.kind = "ValueError" -> UnexpectedErrorPrefix \o outcome.text
    IN  [text |-> text, cache |-> (uri :> text) @@ cache]

\* fetch_resource_content from the return of the outbound GET on
fetch_end(uri, outcome, cache) ==
    CASE outcome.kind = "ok" ->
            [text |-> outcome.text, cache |-> (uri :> outcome.text) @@ cache]
      [] outcome.kind \in {"RequestError", "TimeoutException", "HTTPStatusError"} ->
            [text |-> HttpErrorPrefix \o outcome.text, cache |-> cache]
      [] outcome.kind = "ValueError" ->
            [text |-> UnexpectedErrorPrefix \o outcome.text, cache |-> cache]

-----------------------------------------------------------------------------
(* search_documentation                                                    *)

\* snippet[:200]
SnippetMax == 200

\* relevant_lines[:3]
SnippetLines == 3

\* the dots appended from 200 characters on
Snippet_from_200(content, query_lower) ==
    LET lines == split(content)
        relevant_lines == SelectSeq(lines, LAMBDA line : Contains(query_lower, lower(line)))
        snippet == join(Take(relevant_lines, SnippetLines))
    IN  IF Len(snippet) >= SnippetMax
        THEN Take(snippet, SnippetMax) \o <<".", ".", ".">>
        ELSE snippet

\* the snippet of a matching resource
Snippet(content, query_lower) ==
    LET lines == split(content)
        relevant_lines == SelectSeq(lines, LAMBDA line : Contains(query_lower, lower(line)))
        snippet == join(Take(relevant_lines, SnippetLines))
    IN  IF Len(snippet) > SnippetMax
        THEN Take(snippet, SnippetMax) \o <<".", ".", ".">>
        ELSE snippet

\* the name tested for being there, not for holding the query
IsCandidate_named(resource, query_lower) ==
    \/ Contains(query_lower, lower(resource.description))
    \/ Len(resource.name) > 0

\* every resource taken for a candidate, so that the content alone decides
IsCandidate_every(resource, query_lower) == resource.uri = resource.uri

\* query_lower in resource.description.lower() or query_lower in resource.name.lower()
IsCandidate(resource, query_lower) ==
    \/ Contains(query_lower, lower(resource.description))
    \/ Contains(query_lower, lower(resource.name))

\* the loop body with the newest match put in front
search_visit_newest_first(resource, content, results, query_lower, limit) ==
    IF Contains(query_lower, lower(content))
    THEN LET appended == <<[uri |-> resource.uri,
                            title |-> resource.description,
                            snippet |-> Snippet(content, query_lower)]>> \o results
         IN  IF limit.kind # "int"
             THEN [results |-> appended, stop |-> TRUE, exc |-> "TypeError"]
             ELSE [results |-> appended, stop |-> Len(appended) >= limit.v, exc |-> "none"]
    ELSE [results |-> results, stop |-> FALSE, exc |-> "none"]

\* The body of the loop once the candidate's content is there.  limit is
\* [kind, v]: an integer, or a value that "len(results) >= limit" cannot compare.
search_visit(resource, content, results, query_lower, limit) ==
    IF Contains(query_lower, lower(content))
    THEN LET appended == Append(results, [uri |-> resource.uri,
                                          title |-> resource.description,
                                          snippet |-> Snippet(content, query_lower)])
         IN  IF limit.kind # "int"
             THEN [results |-> appended, stop |-> TRUE, exc |-> "TypeError"]
             ELSE [results |-> appended, stop |-> Len(appended) >= limit.v, exc |-> "none"]
    ELSE [results |-> results, stop |-> FALSE, exc |-> "none"]

\* History of the fetch_resource_content calls, kept for the watched uris (the
\* domain of h).  returned: a call for the uri has returned, and first is the text
\* of the first such call; settled: a call has returned the text of a successful
\* retrieval while no other retrieval of the uri was in flight, and stext is that
\* text.
NoHistory == [returned |-> FALSE, first |-> <<>>, settled |-> FALSE, stext |-> <<>>]

Seen(h, uri) == IF uri \in DOMAIN h THEN h[uri] ELSE NoHistory

\* One completed fetch_resource_content call, for the history of calls.
FetchCall(uri, text, outbound, later, settled) ==
    [uri |-> uri, text |-> text, outbound |-> outbound, later |-> later, settled |-> settled]

\* The loop of search_documentation from catalog position i on, run until it
\* ends or has to wait for an outbound GET.  Cache hits do not suspend.
RECURSIVE search_loop(_, _, _, _, _, _, _, _)
search_loop(i, results, calls, query_lower, limit, res, cache, h) ==
    IF i > Len(res)
    THEN [kind |-> "return", exc |-> "none", i |-> i, results |-> results, calls |-> calls]
    ELSE IF ~IsCandidate(res[i], query_lower)
    THEN search_loop(i + 1, results, calls, query_lower, limit, res, cache, h)
    ELSE LET fb == fetch_begin(res[i].uri, cache)
         IN  CASE fb.kind = "get" ->
                    [kind |-> "await", exc |-> "none", i |-> i, results |-> results,
                     calls |-> calls]
               [] fb.kind = "raise" ->
                    [kind |-> "raise", exc |-> fb.exc, i |-> i, results |-> results,
                     calls |-> calls]
               [] fb.kind = "return" ->
                    LET v == search_visit(res[i], fb.text, results, query_lower, limit)
                        c == Append(calls, FetchCall(res[i].uri, fb.text, FALSE,
                                                     Seen(h, res[i].uri).returned,
                                                     Seen(h, res[i].uri).settled))
                    IN  IF v.exc # "none"
                        THEN [kind |-> "raise", exc |-> v.exc, i |-> i,
                              results |-> v.results, calls |-> c]
                        ELSE IF v.stop
                        THEN [kind |-> "return", exc |-> "none", i |-> i,
                              results |-> v.results, calls |-> c]
                        ELSE search_loop(i + 1, v.results, c, query_lower, limit,
                                         res, cache, h)

-----------------------------------------------------------------------------
(* MCPServer (app/mcp_server.py)                                           *)

\* Markers for what a JSON object does not hold.
Absent == "<absent>"

\* self.tools, as tools/list projects it
tools ==
    << [name |-> "search_llamaindex_docs",
        description |-> "Search through LlamaIndex documentation",
        inputSchema |-> [properties |-> {"query", "limit"}, required |-> {"query"}]],
       [name |-> "get_llamaindex_resource",
        description |-> "Get the full content of a specific LlamaIndex documentation resource",
        inputSchema |-> [properties |-> {"uri"}, required |-> {"uri"}]] >>

\* arguments.get("limit", 5)
DefaultLimit == 5

ParseErrorCode     == -32700
InvalidRequestCode == -32600
MethodNotFoundCode == -32601
InvalidParamsCode  == -32602
InternalErrorCode  == -32603

\* the payload returned bare
ResultResponse_bare(request_id, result) == result

ResultResponse(request_id, result) ==
    [jsonrpc |-> "2.0", id |-> request_id, result |-> result]

ErrorResponse(request_id, code, message) ==
    [jsonrpc |-> "2.0", id |-> request_id, error |-> [code |-> code, message |-> message]]

NoValue == [nothing |-> TRUE]

\* How a run of handle_request stands: it returned a value, raised, or waits for
\* the outbound GET of uri (what: the branch that waits).
\* later and settled record, for the call that waits, what the history said of
\* its uri when the call began.
Returned(value, calls) ==
    [kind |-> "return", value |-> value, exc |-> "none", what |-> "none", uri |-> "",
     i |-> 0, results |-> <<>>, calls |-> calls, later |-> FALSE, settled |-> FALSE]
\* a search that returned: results is the list search_documentation returned
ReturnedSearch(value, calls, results) ==
    [Returned(value, calls) EXCEPT !.results = results]
Raised(exc, calls) ==
    [kind |-> "raise", value |-> NoValue, exc |-> exc, what |-> "none", uri |-> "",
     i |-> 0, results |-> <<>>, calls |-> calls, later |-> FALSE, settled |-> FALSE]
Awaiting(what, uri, i, results, calls, h) ==
    [kind |-> "await", value |-> NoValue, exc |-> "none", what |-> what, uri |-> uri,
     i |-> i, results |-> results, calls |-> calls,
     later |-> Seen(h, uri).returned, settled |-> Seen(h, uri).settled]

\* the float nan that json.loads makes of the token NaN
IdNaN == "<NaN>"

\* request.get("id")
request_id_of(request) == IF request.id = Absent THEN "null" ELSE request.id

\* the except clauses of handle_request
except_clauses(exc, request_id, calls) ==
    CASE exc = "ValueError" ->
            Returned(ErrorResponse(request_id, InvalidParamsCode, exc), calls)
      [] exc = "KeyError" ->
            Returned(ErrorResponse(request_id, InvalidParamsCode, "Missing key"), calls)
      [] exc \in {"TypeError", "RuntimeError"} ->
            Returned(ErrorResponse(request_id, InternalErrorCode, exc), calls)
      [] OTHER -> Raised(exc, calls)

\* an older protocol revision announced
initialize_result_old ==
    [protocolVersion |-> "2024-10-07",
     capabilities |-> [resources |-> [subscribe |-> TRUE, listChanged |-> TRUE],
                       tools |-> [listChanged |-> TRUE]],
     serverInfo |-> [name |-> "llamaindex-docs-server", version |-> "1.0.0"]]

initialize_result ==
    [protocolVersion |-> "2024-11-05",
     capabilities |-> [resources |-> [subscribe |-> TRUE, listChanged |-> TRUE],
                       tools |-> [listChanged |-> TRUE]],
     serverInfo |-> [name |-> "llamaindex-docs-server", version |-> "1.0.0"]]

\* the catalog listed last resource first
resources_list_result_reversed(res) ==
    [resources |-> [k \in 1..Len(res) |->
                      [uri |-> res[Len(res) + 1 - k].uri, name |-> res[Len(res) + 1 - k].name,
                       description |-> res[Len(res) + 1 - k].description,
                       mimeType |-> res[Len(res) + 1 - k].mime_type]]]

resources_list_result(res) ==
    [resources |-> [k \in 1..Len(res) |->
                      [uri |-> res[k].uri, name |-> res[k].name,
                       description |-> res[k].description, mimeType |-> res[k].mime_type]]]

tools_list_result == [tools |-> tools]

read_result(uri, content) ==
    [contents |-> << [uri |-> uri, mimeType |-> "text/plain", text |-> content] >>]

\* json.dumps of a string: quoted, with newlines, quotes and backslashes escaped
json_string(chars) ==
    <<"\"">> \o [k \in 1..Len(chars) |->
                    CASE chars[k] = "\n" -> "\\n"
                      [] chars[k] = "\"" -> "\\\""
                      [] chars[k] = "\\" -> "\\\\"
                      [] OTHER -> chars[k]] \o <<"\"">>

\* json.dumps(results, indent=2): the text of the list, its pieces in order (a uri
\* is one piece)
RECURSIVE json_entries(_)
json_entries(results) ==
    IF results = <<>> THEN <<>>
    ELSE LET r == Head(results)
         IN  <<"\n  {", "\n    \"uri\": ">> \o json_string(<<r.uri>>)
                 \o <<",", "\n    \"title\": ">> \o json_string(r.title)
                 \o <<",", "\n    \"snippet\": ">> \o json_string(r.snippet)
                 \o <<"\n  }">>
                 \o (IF Len(results) > 1 THEN <<",">> ELSE <<>>)
                 \o json_entries(Tail(results))

json_dumps(results) ==
    IF results = <<>> THEN <<"[", "]">>
    ELSE <<"[">> \o json_entries(results) \o <<"\n", "]">>

search_result(results) ==
    [content |-> << [type |-> "text", text |-> json_dumps(results)] >>]

get_result(content) ==
    [content |-> << [type |-> "text", text |-> content] >>]

\* limit = arguments.get("limit", 5)
limit_of(arguments) ==
    IF arguments.limit.kind = "absent" THEN [kind |-> "int", v |-> DefaultLimit]
                                       ELSE arguments.limit

\* what a finished search_loop means for handle_request
search_outcome(request_id, run, res, h) ==
    CASE run.kind = "return" ->
            ReturnedSearch(ResultResponse(request_id, search_result(run.results)),
                           run.calls, run.results)
      [] run.kind = "raise" -> except_clauses(run.exc, request_id, run.calls)
      [] run.kind = "await" ->
            Awaiting("search", res[run.i].uri, run.i, run.results, run.calls, h)

\* a fetch_resource_content call made for resources/read or get_llamaindex_resource
fetch_outcome(what, uri, request_id, cache, h) ==
    LET fb == fetch_begin(uri, cache)
    IN  CASE fb.kind = "raise" -> except_clauses(fb.exc, request_id, <<>>)
          [] fb.kind = "get" -> Awaiting(what, uri, 0, <<>>, <<>>, h)
          [] fb.kind = "return" ->
                Returned(ResultResponse(request_id,
                             IF what = "read" THEN read_result(uri, fb.text)
                                              ELSE get_result(fb.text)),
                         << FetchCall(uri, fb.text, FALSE, Seen(h, uri).returned,
                                      Seen(h, uri).settled) >>)

\* only a missing uri rejected ("if uri is None")
uri_missing_none_only(uri) == uri = UriNone

\* "if not uri": no uri, or an empty one
uri_missing(uri) == uri \in {UriNone, UriEmpty}

\* the answer to resources/read without a uri
uri_required(request_id) ==
    Returned(ErrorResponse(request_id, InvalidParamsCode,
                 "Invalid params: URI parameter is required"), <<>>)

\* an unknown tool raised as ValueError, as the unknown-parameter case is
unknown_tool_raised(request_id) == except_clauses("ValueError", request_id, <<>>)

\* the answer to tools/call for a name that is neither tool
unknown_tool(request_id) ==
    Returned(ErrorResponse(request_id, MethodNotFoundCode,
                 "Method not found: Unknown tool"), <<>>)

\* an unknown method raised as ValueError
unknown_method_raised(request_id) == except_clauses("ValueError", request_id, <<>>)

\* the answer to a method that is none of the five
unknown_method(request_id) ==
    Returned(ErrorResponse(request_id, MethodNotFoundCode, "Method not found"), <<>>)

\* handle_request up to its first suspension
handle_request(request, res, cache, h) ==
    IF request.kind # "object"
    THEN Raised("AttributeError", <<>>)   \* request.get, before the try
    ELSE
    LET method == request.method
        params == request.params
        request_id == request_id_of(request)
    IN  CASE method = "initialize" ->
                Returned(ResultResponse(request_id, initialize_result), <<>>)
          [] method = "resources/list" ->
                Returned(ResultResponse(request_id, resources_list_result(res)), <<>>)
          [] method = "resources/read" ->
                IF params.kind = "other"
                THEN except_clauses("AttributeError", request_id, <<>>)
                ELSE IF uri_missing(params.uri)
                THEN uri_required(request_id)
                ELSE fetch_outcome("read", params.uri, request_id, cache, h)
          [] method = "tools/list" ->
                Returned(ResultResponse(request_id, tools_list_result), <<>>)
          [] method = "tools/call" ->
                IF params.kind = "other"
                THEN except_clauses("AttributeError", request_id, <<>>)
                ELSE
                LET tool_name == params.name
                    arguments == params.arguments
                IN  CASE tool_name = "search_llamaindex_docs" ->
                            IF arguments.kind = "other" \/ arguments.query.kind # "str"
                            THEN \* arguments.get, or query.lower()
                                 except_clauses("AttributeError", request_id, <<>>)
                            ELSE search_outcome(request_id,
                                     search_loop(1, <<>>, <<>>, lower(arguments.query.v),
                                                 limit_of(arguments), res, cache, h), res, h)
                      [] tool_name = "get_llamaindex_resource" ->
                            IF arguments.kind = "other"
                            THEN except_clauses("AttributeError", request_id, <<>>)
                            ELSE fetch_outcome("get", arguments.uri, request_id, cache, h)
                      [] OTHER -> unknown_tool(request_id)
          [] OTHER -> unknown_method(request_id)

\* the scan of a search taken up again at the resource whose content it waited
\* for, instead of the one after it
handle_resume_rescan(request, run, text, call, res, cache, h) ==
    LET request_id == request_id_of(request)
        calls == Append(run.calls, call)
    IN  CASE run.what = "read" ->
                Returned(ResultResponse(request_id, read_result(run.uri, text)), calls)
          [] run.what = "get" ->
                Returned(ResultResponse(request_id, get_result(text)), calls)
          [] run.what = "search" ->
                LET arguments == request.params.arguments
                    query_lower == lower(arguments.query.v)
                    v == search_visit(res[run.i], text, run.results, query_lower,
                                      limit_of(arguments))
                IN  IF v.exc # "none" THEN except_clauses(v.exc, request_id, calls)
                    ELSE IF v.stop
                    THEN ReturnedSearch(ResultResponse(request_id, search_result(v.results)),
                                        calls, v.results)
                    ELSE search_outcome(request_id,
                             search_loop(run.i, v.results, calls, query_lower,
                                         limit_of(arguments), res, cache, h), res, h)

\* handle_request from the return of the outbound GET it waits for: text is what
\* fetch_resource_content returned, cache the cache it left
handle_resume(request, run, text, call, res, cache, h) ==
    LET request_id == request_id_of(request)
        calls == Append(run.calls, call)
    IN  CASE run.what = "read" ->
                Returned(ResultResponse(request_id, read_result(run.uri, text)), calls)
          [] run.what = "get" ->
                Returned(ResultResponse(request_id, get_result(text)), calls)
          [] run.what = "search" ->
                LET arguments == request.params.arguments
                    query_lower == lower(arguments.query.v)
                    v == search_visit(res[run.i], text, run.results, query_lower,
                                      limit_of(arguments))
                IN  IF v.exc # "none" THEN except_clauses(v.exc, request_id, calls)
                    ELSE IF v.stop
                    THEN ReturnedSearch(ResultResponse(request_id, search_result(v.results)),
                                        calls, v.results)
                    ELSE search_outcome(request_id,
                             search_loop(run.i + 1, v.results, calls, query_lower,
                                         limit_of(arguments), res, cache, h), res, h)

-----------------------------------------------------------------------------
(* The HTTP transport (app/routes.py, app/main.py, app/middleware.py)      *)

HttpResponse(status, body) == [status |-> status, body |-> body]

NoResponse == HttpResponse(0, [nothing |-> TRUE])

\* How a run of the POST /rpc endpoint stands: run is the handle_request run,
\* invoked whether handle_request was called, early the response the endpoint
\* built itself, exc the exception that leaves the endpoint.
NoRun == [kind |-> "none", value |-> NoValue, exc |-> "none", what |-> "none",
          uri |-> "", i |-> 0, results |-> <<>>, calls |-> <<>>,
          later |-> FALSE, settled |-> FALSE]

EndpointResponse(response) ==
    [invoked |-> FALSE, run |-> NoRun, response |-> response, exc |-> "none"]
EndpointRaise(exc) ==
    [invoked |-> FALSE, run |-> NoRun, response |-> NoResponse, exc |-> exc]

\* the except clauses of rpc_endpoint around the whole handler
endpoint_except(exc, invoked, run) ==
    CASE exc = "RequestValidationError" ->
            [invoked |-> invoked, run |-> run, exc |-> "none",
             response |-> HttpResponse(400, ErrorResponse("null", InvalidRequestCode,
                                                "Request validation error"))]
      [] exc = "JSONDecodeError" ->
            [invoked |-> invoked, run |-> run, exc |-> "none",
             response |-> HttpResponse(400, ErrorResponse("null", ParseErrorCode,
                                                "Parse error: Invalid JSON"))]
      [] exc \in {"RuntimeError", "RecursionError"} ->
            [invoked |-> invoked, run |-> run, exc |-> "none",
             response |-> HttpResponse(500, ErrorResponse("null", InternalErrorCode,
                                                "Internal server error"))]
      [] OTHER -> [invoked |-> invoked, run |-> run, exc |-> exc, response |-> NoResponse]

\* JSONResponse(content=...): the content is rendered with allow_nan=False, which
\* raises ValueError for a nan
render_error(content) ==
    IF "id" \in DOMAIN content /\ content.id = IdNaN THEN "ValueError" ELSE "none"

\* what a handle_request run that ended means for rpc_endpoint
endpoint_finish(run) ==
    CASE run.kind = "return" ->
            IF render_error(run.value) # "none"
            THEN endpoint_except(render_error(run.value), TRUE, run)
            ELSE [invoked |-> TRUE, run |-> run, exc |-> "none",
                  response |-> HttpResponse(200, run.value)]
      [] run.kind = "raise" -> endpoint_except(run.exc, TRUE, run)
      [] run.kind = "await" ->
            [invoked |-> TRUE, run |-> run, exc |-> "none", response |-> NoResponse]

\* The exception json.loads raises on a body that is no JSON text, by the kind
\* of body: a decoding error, a JSON syntax error, or nesting beyond the
\* interpreter's recursion limit.
json_error(body_kind) ==
    CASE body_kind \in {"garbage", "empty", "form"} -> "JSONDecodeError"
      [] body_kind = "undecodable" -> "UnicodeDecodeError"
      [] body_kind = "too_deep" -> "RecursionError"
      [] OTHER -> "none"

\* rpc_endpoint up to its first suspension.  For a parsed body that is no object,
\* body.method says whether  "method" in req_json  holds (a substring of a JSON
\* string, an element of a JSON array).
rpc_endpoint(body, res, cache, h) ==
    IF json_error(body.kind) = "JSONDecodeError"
    THEN EndpointResponse(HttpResponse(400, ErrorResponse("null", ParseErrorCode,
                                                "Parse error: Invalid JSON")))
    ELSE IF json_error(body.kind) # "none"
    THEN endpoint_except(json_error(body.kind), FALSE, NoRun)
    ELSE IF body.kind = "scalar"
    THEN endpoint_except("TypeError", FALSE, NoRun)      \* "method" not in 5
    ELSE IF body.method = Absent
    THEN IF body.kind = "object"
         THEN IF render_error(ErrorResponse(request_id_of(body), InvalidRequestCode, "")) # "none"
              THEN endpoint_except("ValueError", FALSE, NoRun)
              ELSE EndpointResponse(HttpResponse(400,
                       ErrorResponse(request_id_of(body), InvalidRequestCode,
                                     "Invalid Request: missing method")))
         ELSE endpoint_except("AttributeError", FALSE, NoRun)   \* req_json.get("id")
    ELSE endpoint_finish(handle_request(body, res, cache, h))

\* log_requests: a JSON response is read and built again with the same content
\* and status
log_requests(response) == HttpResponse(response.status, response.body)

\* What leaves the application for a request to /rpc handled by POST or GET:
\* RpcExceptionMiddleware.dispatch around log_requests around the route.  An
\* exception that no except clause names reaches the server's error handler.
rpc_dispatch(outcome) ==
    IF outcome.exc \in {"HTTPException", "RequestValidationError"}
    THEN HttpResponse(400, ErrorResponse("null", InternalErrorCode, "Internal error"))
    ELSE IF outcome.exc # "none"
    THEN HttpResponse(500, [text |-> "Internal Server Error"])
    ELSE IF log_requests(outcome.response).status = 500
    THEN HttpResponse(500, ErrorResponse("null", InternalErrorCode, "Internal error"))
    ELSE log_requests(outcome.response)

\* the routes that answer without the dispatcher
root == HttpResponse(200, [status |-> "MCP Server is running", version |-> "1.0.0"])
\* the healthcheck refusing while the server is busy
rpc_healthcheck_unavailable == HttpResponse(503, [status |-> "unavailable", method |-> "GET /rpc healthcheck"])
rpc_healthcheck == HttpResponse(200, [status |-> "ok", method |-> "GET /rpc healthcheck"])
\* the refusal sent as a bad request
rpc_method_not_allowed_400 == HttpResponse(400, [detail |-> "Method Not Allowed"])

rpc_method_not_allowed == HttpResponse(405, [detail |-> "Method Not Allowed"])

-----------------------------------------------------------------------------
(* The requests clients send.                                              *)

\* 'Agents'
QueryAgents ==
    <<"A","g","e","n","t","s">>
\* 'zzz'
QueryNowhere ==
    <<"z","z","z">>

NoQuery == [kind |-> "none", v |-> <<>>]        \* key absent, or JSON null
NoLimit == [kind |-> "absent", v |-> 0]

Arguments(kind, query, limit, uri) ==
    [kind |-> kind, query |-> query, limit |-> limit, uri |-> uri]
NoArguments == Arguments("absent", NoQuery, NoLimit, UriNone)      \* key absent
EmptyArguments == Arguments("object", NoQuery, NoLimit, UriNone)   \* {}
OtherArguments == Arguments("other", NoQuery, NoLimit, UriNone)    \* no JSON object

Params(kind, uri, name, arguments) ==
    [kind |-> kind, uri |-> uri, name |-> name, arguments |-> arguments]
NoParams == Params("absent", UriNone, Absent, NoArguments)         \* key absent
EmptyParams == Params("object", UriNone, Absent, NoArguments)      \* {}
OtherParams == Params("other", UriNone, Absent, NoArguments)       \* null, array, ...

Body(kind, id, method, params) ==
    [kind |-> kind, id |-> id, method |-> method, params |-> params]

\* ids a request object carries, or none: a number, or the NaN that json.loads
\* accepts as a number
Ids == {Absent, "7", IdNaN}

Methods == {"initialize", "resources/list", "resources/read", "tools/list", "tools/call"}

ToolNames == {"search_llamaindex_docs", "get_llamaindex_resource"}

\* method values outside the protocol: an unknown name, JSON null
OtherMethods == {"unknown_method", "<null>"}

\* tool names outside the registry: an unknown name, none at all
OtherToolNames == {"nonexistent", Absent}

UriValues ==
    {UriNone, UriEmpty, UriList, UriNumber, UriNoScheme, UriMalformed, UriOutside, UriAgents}

QueryValues ==
    {NoQuery, [kind |-> "other", v |-> <<>>],
     [kind |-> "str", v |-> QueryAgents], [kind |-> "str", v |-> QueryNowhere]}

LimitValues ==
    {NoLimit, [kind |-> "int", v |-> 0], [kind |-> "int", v |-> 1],
     [kind |-> "other", v |-> 0]}

ParamsValues ==
    {NoParams, EmptyParams, OtherParams}
        \cup {Params("object", u, Absent, NoArguments) : u \in UriValues}
        \cup {Params("object", UriNone, n, a) :
                 n \in OtherToolNames \cup ToolNames,
                 a \in {NoArguments, EmptyArguments, OtherArguments}}
        \cup {Params("object", UriNone, "search_llamaindex_docs",
                     Arguments("object", q, l, UriNone)) :
                 q \in QueryValues, l \in LimitValues}
        \cup {Params("object", UriNone, "get_llamaindex_resource",
                     Arguments("object", NoQuery, NoLimit, u)) : u \in UriValues}

\* the params that matter to a method: the others are never read
ParamsFor(method) ==
    CASE method = "resources/read" ->
            {p \in ParamsValues : p.name = Absent}
      [] method = "tools/call" ->
            {p \in ParamsValues : p.uri = UriNone}
      [] OTHER -> {NoParams, EmptyParams, OtherParams}

\* POST /rpc bodies: no JSON text, JSON that is no object, JSON objects
Bodies ==
    {Body(k, Absent, Absent, NoParams) :
        k \in {"garbage", "empty", "form", "undecodable", "too_deep", "scalar"}}
        \cup {Body(k, Absent, m, NoParams) : k \in {"string", "array"}, m \in {Absent, "method"}}
        \cup {Body("object", id, Absent, NoParams) : id \in Ids}
        \cup UNION {{Body("object", id, m, p) : id \in Ids, p \in ParamsFor(m)} :
                        m \in Methods \cup OtherMethods}

NoBody == Body("none", Absent, Absent, NoParams)

HttpRequest(verb, path, body) == [verb |-> verb, path |-> path, body |-> body]

OtherVerbs == {"PUT", "DELETE", "PATCH", "OPTIONS", "HEAD"}

Requests ==
    {HttpRequest("POST", "/rpc", b) : b \in Bodies}
        \cup {HttpRequest("GET", p, NoBody) : p \in {"/", "/rpc"}}
        \cup {HttpRequest(v, "/rpc", b) : v \in OtherVerbs, b \in {NoBody, Body("garbage", Absent, Absent, NoParams)}}

NoRequest == HttpRequest("none", "", NoBody)

-----------------------------------------------------------------------------
(* State.                                                                  *)

\* the record of a handler task
Task(pc, req, invoked, run, resp) ==
    [pc |-> pc, req |-> req, invoked |-> invoked, run |-> run, resp |-> resp]

Idle == Task("idle", NoRequest, FALSE, NoRun, NoResponse)

\* The state after construction, with the handler tasks the server runs at a
\* time and the uris whose history is watched.
InitWith(handlers, watched) ==
    /\ started = FALSE
    /\ resource_limit = DocLinksCap
    /\ index = [kind |-> "none", page |-> <<>>]
    /\ resources = <<>>
    /\ cached_docs = <<>>
    /\ slot = [s \in handlers |-> Idle]
    /\ hist = [u \in watched |-> NoHistory]

\* requests handled one after the other
Init == InitWith({"h1"}, {})

\* the history after the calls of a run have returned
RECURSIVE record_calls(_, _)
record_calls(h, calls) ==
    IF calls = <<>> THEN h
    ELSE LET c == Head(calls)
             old == Seen(h, c.uri)
         IN  IF c.uri \notin DOMAIN h
             THEN record_calls(h, Tail(calls))
             ELSE record_calls(
                      [h EXCEPT ![c.uri] =
                          [old EXCEPT !.returned = TRUE,
                                      !.first = IF old.returned THEN old.first ELSE c.text]],
                      Tail(calls))

\* discovery run again whenever the hook is entered
Lifespan_again(outcome, limit) ==
    /\ started' = TRUE
    /\ resource_limit' = limit
    /\ index' = outcome
    /\ resources' = initialize(resources, outcome, limit)
    /\ UNCHANGED <<cached_docs, slot, hist>>

\* lifespan: mcp_server.initialize() before the first request is served
Lifespan(outcome, limit) ==
    /\ ~started
    /\ started' = TRUE
    /\ resource_limit' = limit
    /\ index' = outcome
    /\ resources' = initialize(resources, outcome, limit)
    /\ UNCHANGED <<cached_docs, slot, hist>>

\* what answers a request that needs no outbound GET, and the task it leaves
answer(r, e) ==
    CASE r.path = "/rpc" /\ r.verb \notin {"POST", "GET"} ->
            Task("done", r, FALSE, NoRun, rpc_method_not_allowed)
      [] r.path = "/rpc" /\ r.verb = "GET" ->
            Task("done", r, FALSE, NoRun, rpc_dispatch(EndpointResponse(rpc_healthcheck)))
      [] r.path = "/" ->
            Task("done", r, FALSE, NoRun, log_requests(root))
      [] r.path = "/rpc" /\ r.verb = "POST" ->
            IF e.run.kind = "await"
            THEN Task("await", r, e.invoked, e.run, NoResponse)
            ELSE Task("done", r, e.invoked, e.run, rpc_dispatch(e))

\* a request for a uri that another task is retrieving joins that retrieval
\* instead of sending its own
Receive_single_flight(s, r) ==
    /\ started
    /\ slot[s].pc # "await"
    /\ LET e == IF r.path = "/rpc" /\ r.verb = "POST"
                THEN rpc_endpoint(r.body, resources, cached_docs, hist)
                ELSE EndpointResponse(NoResponse)
           joins == /\ e.run.kind = "await"
                    /\ \E o \in DOMAIN slot \ {s} :
                          slot[o].pc = "await" /\ slot[o].run.uri = e.run.uri
       IN  /\ slot' = [slot EXCEPT ![s] = IF joins
                                          THEN Task("joined", r, e.invoked, e.run, NoResponse)
                                          ELSE answer(r, e)]
           /\ hist' = record_calls(hist, e.run.calls)
    /\ UNCHANGED <<started, resource_limit, index, resources, cached_docs>>

\* A request arrives at a free handler task and is handled up to its response
\* or its first outbound GET.
Receive(s, r) ==
    /\ started
    /\ slot[s].pc # "await"
    /\ LET e == IF r.path = "/rpc" /\ r.verb = "POST"
                THEN rpc_endpoint(r.body, resources, cached_docs, hist)
                ELSE EndpointResponse(NoResponse)
       IN  /\ slot' = [slot EXCEPT ![s] = answer(r, e)]
           /\ hist' = record_calls(hist, e.run.calls)
    /\ UNCHANGED <<started, resource_limit, index, resources, cached_docs>>

\* The outbound GET a task waits for ends; the task runs on to its response or
\* its next outbound GET.
FetchReturn(s, outcome) ==
    /\ slot[s].pc = "await"
    /\ LET t == slot[s]
           uri == t.run.uri
           fe == fetch_end(uri, outcome, cached_docs)
           call == FetchCall(uri, fe.text, TRUE, t.run.later, t.run.settled)
           quiet == \A o \in DOMAIN slot \ {s} :
                        ~(slot[o].pc = "await" /\ slot[o].run.uri = uri)
           h1 == IF uri \in DOMAIN hist /\ outcome.kind = "ok" /\ quiet
                    /\ ~hist[uri].settled
                 THEN [hist EXCEPT ![uri] = [@ EXCEPT !.settled = TRUE, !.stext = fe.text]]
                 ELSE hist
           h2 == record_calls(h1, <<call>>)
           run == handle_resume(t.req.body, t.run, fe.text, call, resources, fe.cache, h2)
           e == endpoint_finish(run)
       IN  /\ cached_docs' = fe.cache
           /\ slot' = [slot EXCEPT ![s] = answer(t.req, e)]
           /\ hist' = record_calls(h2, run.calls)
    /\ UNCHANGED <<started, resource_limit, index, resources>>

Next ==
    \/ \E outcome \in IndexOutcomes : Lifespan(outcome, DocLinksCap)
    \/ \E s \in DOMAIN slot, r \in Requests : Receive(s, r)
    \/ \E s \in DOMAIN slot, outcome \in FetchOutcomes : FetchReturn(s, outcome)

Spec == Init /\ [][Next]_vars

\* Two requests handled at a time, interleaving at their outbound GETs, with the
\* history of the fetched uri watched.
ReadOf(uri) == Body("object", "7", "resources/read", Params("object", uri, Absent, NoArguments))
GetOf(uri) ==
    Body("object", "7", "tools/call",
         Params("object", UriNone, "get_llamaindex_resource",
                Arguments("object", NoQuery, NoLimit, uri)))
SearchOf(query, limit) ==
    Body("object", "7", "tools/call",
         Params("object", UriNone, "search_llamaindex_docs",
                Arguments("object", [kind |-> "str", v |-> query], limit, UriNone)))

ConcurrentRequests ==
    {HttpRequest("POST", "/rpc", b) :
        b \in {ReadOf(UriAgents), ReadOf(UriNoScheme), GetOf(UriAgents), GetOf(UriNone),
               SearchOf(QueryAgents, NoLimit)}}

InitConcurrent == InitWith({"h1", "h2"}, {UriAgents})

NextConcurrent ==
    \/ \E outcome \in IndexOutcomes : Lifespan(outcome, DocLinksCap)
    \/ \E s \in DOMAIN slot, r \in ConcurrentRequests : Receive(s, r)
    \/ \E s \in DOMAIN slot, outcome \in FetchOutcomes : FetchReturn(s, outcome)

SpecConcurrent == InitConcurrent /\ [][NextConcurrent]_vars

\* The catalog under every configured maximum and every outcome of the index
\* page, with requests that read it.
ListOf(id) == Body("object", id, "resources/list", NoParams)

CatalogRequests ==
    {HttpRequest("POST", "/rpc", b) :
        b \in {ListOf(Absent), ListOf("7"), SearchOf(QueryAgents, NoLimit)}}
        \cup {HttpRequest("GET", "/", NoBody)}

InitCatalog == InitWith({"h1"}, {})

NextCatalog ==
    \/ \E outcome \in CatalogOutcomes, limit \in ResourceLimits : Lifespan(outcome, limit)
    \/ \E s \in DOMAIN slot, r \in CatalogRequests : Receive(s, r)
    \/ \E s \in DOMAIN slot, outcome \in FetchOutcomes : FetchReturn(s, outcome)

SpecCatalog == InitCatalog /\ [][NextCatalog]_vars

\* Searches over catalogs of several resources whose pages hold the query in
\* one, several or long lines.
\* 'Doc'
QueryDoc ==
    <<"D","o","c">>

SearchQueries == {QueryDoc, QueryAgents, <<>>}

SearchLimits == {NoLimit, [kind |-> "int", v |-> 0], [kind |-> "int", v |-> 1],
                 [kind |-> "int", v |-> 2]}

SearchRequests ==
    {HttpRequest("POST", "/rpc", SearchOf(q, l)) : q \in SearchQueries, l \in SearchLimits}

SearchIndexOutcomes ==
    {[kind |-> "ok", page |-> p] :
        p \in {<<LinkExamples, LinkAgents, LinkGuides>>, <<LinkExamples, LinkAgents>>}}

SearchFetchOutcomes ==
    {[kind |-> "ok", text |-> t] : t \in SearchPageTexts}
        \cup {[kind |-> "RequestError", text |-> MsgRequestError]}

InitSearch == InitWith({"h1"}, {})

NextSearch ==
    \/ \E outcome \in SearchIndexOutcomes : Lifespan(outcome, DocLinksCap)
    \/ \E s \in DOMAIN slot, r \in SearchRequests : Receive(s, r)
    \/ \E s \in DOMAIN slot, outcome \in SearchFetchOutcomes : FetchReturn(s, outcome)

SpecSearch == InitSearch /\ [][NextSearch]_vars

\* Requests that wait for outbound GETs, two at a time, where every outbound GET
\* ends: the client is built with timeout=30.0, so a GET that gets no answer ends
\* in httpx.TimeoutException, a RequestError.
LiveFetchOutcomes ==
    {[kind |-> "ok", text |-> PageDocs]}
        \cup {[kind |-> "TimeoutException", text |-> <<"t","i","m","e","d"," ","o","u","t">>]}

NextLive ==
    \/ \E outcome \in {[kind |-> "ok", page |-> <<LinkExamples, LinkAgents, LinkGuides>>]} :
          Lifespan(outcome, DocLinksCap)
    \/ \E s \in DOMAIN slot,
          r \in {HttpRequest("POST", "/rpc", b) :
                    b \in {ReadOf(UriAgents), SearchOf(QueryDoc, NoLimit)}} :
          Receive(s, r)
    \/ \E s \in DOMAIN slot, outcome \in LiveFetchOutcomes : FetchReturn(s, outcome)

\* Weak fairness of the end of each task's outbound GET.  FetchReturn(s, outcome)
\* is enabled exactly when task s waits for its GET, so the condition
\* WF_vars(\E outcome \in LiveFetchOutcomes : FetchReturn(s, outcome)) is written
\* with that enabling condition in place of ENABLED.
SpecLive ==
    /\ InitWith({"h1", "h2"}, {})
    /\ [][NextLive]_vars
    /\ \A s \in {"h1", "h2"} :
          \/ []<>(slot[s].pc # "await")
          \/ []<><<\E outcome \in LiveFetchOutcomes : FetchReturn(s, outcome)>>_vars

-----------------------------------------------------------------------------
(* Properties.                                                             *)

Tasks == DOMAIN slot

\* the task has answered a POST /rpc
AnsweredPost(t) == t.pc = "done" /\ t.req.verb = "POST" /\ t.req.path = "/rpc"

\* handle_request was called with a request object
Dispatched(t) == t.invoked /\ t.req.body.kind = "object"

\* the value is a JSON-RPC error with this code
IsError(value, code) == "error" \in DOMAIN value /\ value.error.code = code

\* bodies that are no JSON text
UnparsableKinds == {"garbage", "empty", "form", "undecodable", "too_deep"}

\* parsed bodies without a method member: every JSON value that is no object, and
\* the objects that lack the key
LacksMethod(body) ==
    \/ body.kind \in {"scalar", "string", "array"}
    \/ body.kind = "object" /\ body.method = Absent

\* C1: every POST /rpc whose body carries an id is answered with that id in the
\* response's id field, whatever path produced the response.
C1_IdEchoed ==
    \A s \in Tasks :
        (AnsweredPost(slot[s]) /\ slot[s].req.body.kind = "object"
            /\ slot[s].req.body.id # Absent)
            => ("id" \in DOMAIN slot[s].resp.body
                    /\ slot[s].resp.body.id = slot[s].req.body.id)

\* C2: every value handle_request returns is an envelope with jsonrpc "2.0", an
\* id, and exactly one of result and error.
C2_Envelope ==
    \A s \in Tasks :
        slot[s].run.kind = "return"
            => LET v == slot[s].run.value
               IN  /\ DOMAIN v \in {{"jsonrpc", "id", "result"}, {"jsonrpc", "id", "error"}}
                   /\ v.jsonrpc = "2.0"

\* a search that waited for a page has returned its result envelope
C2_Witness ==
    \E s \in Tasks :
        /\ slot[s].run.kind = "return"
        /\ slot[s].run.calls # <<>>
        /\ slot[s].req.body.params.name = "search_llamaindex_docs"
        /\ "result" \in DOMAIN slot[s].run.value

\* the calls of fetch_resource_content that tasks have completed
CompletedCalls == UNION {{slot[s].run.calls[k] : k \in DOMAIN slot[s].run.calls} : s \in Tasks}

\* A uri for which the client sends nothing returns one text and no request goes out.
SameWithoutRequest ==
    \A c, d \in CompletedCalls :
        (c.uri = d.uri /\ c.uri \notin WellFormedUrls)
            => (c.text = d.text /\ ~c.outbound)

C4_UnknownMethod ==
    \A s \in Tasks :
        (Dispatched(slot[s]) /\ slot[s].req.body.method \notin Methods)
            => (slot[s].run.kind = "return"
                    /\ IsError(slot[s].run.value, MethodNotFoundCode))

\* an unknown method with params that are no object was dispatched while the
\* cache held a page
C4_Witness ==
    \E s \in Tasks :
        /\ Dispatched(slot[s]) /\ slot[s].pc = "done"
        /\ slot[s].req.body.method = "unknown_method"
        /\ slot[s].req.body.params.kind = "other"
        /\ cached_docs # <<>>

\* the task handles tools/call, params being an object or absent, for a name
\* that is neither tool
UnknownToolCall(t) ==
    /\ Dispatched(t) /\ t.req.body.method = "tools/call"
    /\ t.req.body.params.kind # "other"
    /\ t.req.body.params.name \notin ToolNames

\* C5: tools/call whose params (a JSON object, or left out) name neither tool, or
\* no tool at all, is answered with error code -32601, with no fetch and no
\* change of cache or catalog.
C5_UnknownTool ==
    [][\A s \in Tasks :
          (slot'[s] # slot[s] /\ UnknownToolCall(slot'[s]))
              => /\ slot'[s].pc = "done"
                 /\ slot'[s].run.kind = "return"
                 /\ IsError(slot'[s].run.value, MethodNotFoundCode)
                 /\ slot'[s].run.calls = <<>>
                 /\ cached_docs' = cached_docs
                 /\ resources' = resources]_vars

\* tools/call without a name was answered while the cache held a page
C5_Witness ==
    \E s \in Tasks :
        /\ UnknownToolCall(slot[s]) /\ slot[s].pc = "done"
        /\ slot[s].req.body.params.name = Absent
        /\ cached_docs # <<>>

\* the task handles resources/read, params being an object or absent, without a
\* uri or with an empty one
ReadWithoutUri(t) ==
    /\ Dispatched(t) /\ t.req.body.method = "resources/read"
    /\ t.req.body.params.kind # "other"
    /\ t.req.body.params.uri \in {UriNone, UriEmpty}

\* C6: resources/read whose params (a JSON object, or left out) hold no uri, or an
\* empty one, is answered with error code -32602, with no outbound fetch and no
\* change of the cache.
C6_ReadWithoutUri ==
    [][\A s \in Tasks :
          (slot'[s] # slot[s] /\ ReadWithoutUri(slot'[s]))
              => /\ slot'[s].pc = "done"
                 /\ slot'[s].run.kind = "return"
                 /\ IsError(slot'[s].run.value, InvalidParamsCode)
                 /\ slot'[s].run.calls = <<>>
                 /\ cached_docs' = cached_docs]_vars

\* a read with an empty uri was answered while the cache held a page
C6_Witness ==
    \E s \in Tasks :
        /\ ReadWithoutUri(slot[s]) /\ slot[s].pc = "done"
        /\ slot[s].req.body.params.kind = "object"
        /\ slot[s].req.body.params.uri = UriEmpty
        /\ cached_docs # <<>>

\* C7: initialize is answered with a result whose serverInfo.name is
\* "llamaindex-docs-server" and whose protocolVersion is "2024-11-05", whatever the
\* catalog and the cache hold.
C7_Initialize ==
    \A s \in Tasks :
        (Dispatched(slot[s]) /\ slot[s].req.body.method = "initialize")
            => /\ slot[s].run.kind = "return"
               /\ "result" \in DOMAIN slot[s].run.value
               /\ slot[s].run.value.result.serverInfo.name = "llamaindex-docs-server"
               /\ slot[s].run.value.result.protocolVersion = "2024-11-05"

\* initialize was answered with an empty catalog and a page in the cache
C7_Witness ==
    \E s \in Tasks :
        /\ Dispatched(slot[s]) /\ slot[s].pc = "done"
        /\ slot[s].req.body.method = "initialize"
        /\ resources = <<>>
        /\ cached_docs # <<>>

\* C11: every response handle_request returns for a request object with a method
\* is sent unchanged with HTTP status 200, be it a result or an error.
C11_DispatcherStatus200 ==
    \A s \in Tasks :
        (AnsweredPost(slot[s]) /\ Dispatched(slot[s]) /\ slot[s].run.kind = "return")
            => /\ slot[s].resp.status = 200
               /\ slot[s].resp.body = slot[s].run.value

\* C8: a POST /rpc whose body is no JSON text is answered with HTTP 400 and a
\* JSON-RPC error with code -32700 and id null.
C8_ParseError ==
    \A s \in Tasks :
        (AnsweredPost(slot[s]) /\ slot[s].req.body.kind \in UnparsableKinds)
            => /\ slot[s].resp.status = 400
               /\ IsError(slot[s].resp.body, ParseErrorCode)
               /\ slot[s].resp.body.id = "null"

\* C9: a POST /rpc whose parsed body has no method member, object or not, is
\* answered with HTTP 400 and a JSON-RPC error with code -32600.
C9_MissingMethod ==
    \A s \in Tasks :
        (AnsweredPost(slot[s]) /\ LacksMethod(slot[s].req.body))
            => /\ slot[s].resp.status = 400
               /\ IsError(slot[s].resp.body, InvalidRequestCode)

\* C10: a POST /rpc whose body is no JSON text or has no method member never
\* reaches handle_request, makes no fetch and leaves cache and catalog unchanged.
C10_RejectedBeforeDispatch ==
    [][\A s \in Tasks :
          (slot'[s] # slot[s] /\ slot'[s].req.verb = "POST" /\ slot'[s].req.path = "/rpc"
              /\ (slot'[s].req.body.kind \in UnparsableKinds \/ LacksMethod(slot'[s].req.body)))
              => /\ ~slot'[s].invoked
                 /\ slot'[s].pc = "done"
                 /\ cached_docs' = cached_docs
                 /\ resources' = resources]_vars

\* handling of the request object failed: an exception left handle_request, or
\* its last except clause answered
HandlingFailed(t) ==
    /\ Dispatched(t)
    /\ \/ t.run.kind = "raise"
       \/ t.run.kind = "return" /\ IsError(t.run.value, InternalErrorCode)

\* C12: no exception raised while handle_request processes a request object
\* leaves it: every run for a request object ends with a returned response.
C12_NoExceptionEscapes ==
    \A s \in Tasks : Dispatched(slot[s]) => slot[s].run.kind # "raise"

\* C13: whenever the handling of a request object with a method fails
\* unexpectedly, the answer has HTTP status 500 and a JSON-RPC body with error
\* code -32603.
C13_InternalFailure500 ==
    \A s \in Tasks :
        (AnsweredPost(slot[s]) /\ HandlingFailed(slot[s]))
            => /\ slot[s].resp.status = 500
               /\ IsError(slot[s].resp.body, InternalErrorCode)

\* the task handles a request to /rpc with a verb other than GET and POST
OtherVerbCall(t) == t.req.path = "/rpc" /\ t.req.verb \in OtherVerbs

\* C14: a request to /rpc with a verb other than GET and POST is answered with
\* HTTP 405 whatever its body, handle_request is not called, and catalog and cache
\* stay as they are.
C14_MethodNotAllowed ==
    [][\A s \in Tasks :
          (slot'[s] # slot[s] /\ OtherVerbCall(slot'[s]))
              => /\ slot'[s].pc = "done"
                 /\ slot'[s].resp.status = 405
                 /\ ~slot'[s].invoked
                 /\ slot'[s].run.calls = <<>>
                 /\ cached_docs' = cached_docs
                 /\ resources' = resources]_vars

\* a PUT with a body was refused while the cache held a page
C14_Witness ==
    \E s \in Tasks :
        /\ OtherVerbCall(slot[s]) /\ slot[s].pc = "done"
        /\ slot[s].req.verb = "PUT"
        /\ slot[s].req.body.kind = "garbage"
        /\ slot[s].resp.status = 405
        /\ cached_docs # <<>>

\* no two resources of the catalog share a uri
UniqueUris(res) == \A i, j \in 1..Len(res) : res[i].uri = res[j].uri => i = j

FallbackCatalog ==
    [k \in 1..5 |->
        MCPResource(default_docs[k].uri,
                    DefaultNamePrefix \o replace(lower(default_docs[k].title), " ", "_"),
                    DescriptionPrefix \o default_docs[k].title, "text/html")]

\* C16: if the fetch or the parse of the index page fails for any reason, the
\* catalog after initialization is exactly the five fallback resources in their
\* fixed order.
C16_FallbackOnFailure ==
    (started /\ index.kind # "ok")
        => /\ resources = FallbackCatalog
           /\ [k \in 1..5 |-> default_docs[k].title]
                 = <<TitleGettingStarted, TitleDataLoading, TitleIndexing, TitleQuerying,
                     TitleAgents>>

\* C17: after initialization the catalog is not empty, and resources/list
\* returns at least one resource.
C17_CatalogNotEmpty ==
    /\ started => resources # <<>>
    /\ \A s \in Tasks :
          (Dispatched(slot[s]) /\ slot[s].pc = "done"
              /\ slot[s].req.body.method = "resources/list")
              => Len(slot[s].run.value.result.resources) >= 1

\* the task has answered a search whose limit is a number
SearchReturned(t) ==
    /\ Dispatched(t) /\ t.pc = "done" /\ t.run.kind = "return"
    /\ t.req.body.method = "tools/call"
    /\ t.req.body.params.name = "search_llamaindex_docs"
    /\ limit_of(t.req.body.params.arguments).kind = "int"

\* the query of the search the task has answered, lower-cased
QueryLowerOf(t) == lower(t.req.body.params.arguments.query.v)

\* C18: a search with a limit >= 0 returns at most limit entries, and none for the
\* limit 0.
C18_AtMostLimit ==
    \A s \in Tasks :
        SearchReturned(slot[s])
            => LET limit == limit_of(slot[s].req.body.params.arguments).v
               IN  /\ Len(slot[s].run.results) <= limit
                   /\ limit = 0 => slot[s].run.results = <<>>

\* the content fetch_resource_content returned to the search for the uri
ContentsFor(t, uri) ==
    {t.run.calls[k].text : k \in {j \in DOMAIN t.run.calls : t.run.calls[j].uri = uri}}

\* C19: every entry a search returns is a resource of the catalog whose name or
\* description holds the query, case ignored, and whose fetched content holds the
\* query, case ignored.
C19_EntriesMatch ==
    \A s \in Tasks :
        SearchReturned(slot[s])
            => \A n \in DOMAIN slot[s].run.results :
                  LET e == slot[s].run.results[n]
                      q == QueryLowerOf(slot[s])
                  IN  /\ \E k \in DOMAIN resources :
                            /\ resources[k].uri = e.uri
                            /\ resources[k].description = e.title
                            /\ \/ Contains(q, lower(resources[k].name))
                               \/ Contains(q, lower(resources[k].description))
                      /\ ContentsFor(slot[s], e.uri) # {}
                      /\ \A text \in ContentsFor(slot[s], e.uri) : Contains(q, lower(text))

\* a search returned two entries after it passed a candidate whose content does
\* not hold the query
C19_Witness ==
    \E s \in Tasks :
        /\ SearchReturned(slot[s])
        /\ Len(slot[s].run.results) = 2
        /\ Len(slot[s].run.calls) = 3
        /\ QueryLowerOf(slot[s]) = lower(QueryDoc)

\* the first three lines of the text that hold the query, joined by newlines
FirstThreeJoined(text, q) ==
    LET lines == split(text)
        holding == {k \in DOMAIN lines : Contains(q, lower(lines[k]))}
        nth(n) == CHOOSE k \in holding : Cardinality({j \in holding : j < k}) = n - 1
        count == IF Cardinality(holding) < 3 THEN Cardinality(holding) ELSE 3
    IN  join([n \in 1..count |-> lines[nth(n)]])

\* C20: the snippet of every search result is the first three lines of the
\* content that hold the query, joined by newlines; when that text is longer than
\* 200 characters the snippet is its first 200 characters followed by "...", else
\* the text itself; no snippet is longer than 203 characters.
C20_Snippet ==
    \A s \in Tasks :
        SearchReturned(slot[s])
            => \A n \in DOMAIN slot[s].run.results :
                  LET e == slot[s].run.results[n]
                  IN  \A text \in ContentsFor(slot[s], e.uri) :
                         LET joined == FirstThreeJoined(text, QueryLowerOf(slot[s]))
                         IN  /\ Len(e.snippet) <= 203
                             /\ Len(joined) <= 200 => e.snippet = joined
                             /\ Len(joined) > 200
                                   => e.snippet = SubSeq(joined, 1, 200) \o <<".", ".", ".">>

\* a search returned a snippet of exactly 200 characters without the dots and one
\* cut to 200 characters with them
C20_Witness ==
    \E s \in Tasks :
        /\ SearchReturned(slot[s])
        /\ \E n, m \in DOMAIN slot[s].run.results :
              /\ Len(slot[s].run.results[n].snippet) = 200
              /\ Len(slot[s].run.results[m].snippet) = 203

\* the task runs or has run a search whose limit is a number
SearchTask(t) ==
    /\ t.req.verb = "POST" /\ Dispatched(t)
    /\ t.req.body.method = "tools/call"
    /\ t.req.body.params.kind # "other"
    /\ t.req.body.params.name = "search_llamaindex_docs"
    /\ t.req.body.params.arguments.kind # "other"
    /\ t.req.body.params.arguments.query.kind = "str"
    /\ limit_of(t.req.body.params.arguments).kind = "int"

\* the matches the search had collected before its k-th content fetch
MatchesBefore(t, k) ==
    Cardinality({j \in 1..(k - 1) : Contains(QueryLowerOf(t), lower(t.run.calls[j].text))})

\* C21: during a search, once limit matches have been collected no further
\* resource is content-fetched: every content fetch of the search, completed or
\* in flight, begins with fewer than limit matches collected.
C21_NoFetchAfterLimit ==
    \A s \in Tasks :
        SearchTask(slot[s])
            => LET t == slot[s]
                   limit == limit_of(t.req.body.params.arguments).v
               IN  /\ t.run.kind = "await" => Len(t.run.results) < limit
                   /\ \A k \in DOMAIN t.run.calls : MatchesBefore(t, k) < limit

\* the task was handed a request that calls fetch_resource_content: a
\* resources/read that carries a uri, or a call of get_llamaindex_resource
FetchRequested(t) ==
    /\ t.req.verb = "POST" /\ Dispatched(t)
    /\ t.req.body.params.kind # "other"
    /\ \/ /\ t.req.body.method = "resources/read"
          /\ ~uri_missing(t.req.body.params.uri)
       \/ /\ t.req.body.method = "tools/call"
          /\ t.req.body.params.name = "get_llamaindex_resource"
          /\ t.req.body.params.arguments.kind # "other"

\* the uri the request hands to fetch_resource_content
FetchUriOf(t) ==
    IF t.req.body.method = "resources/read" THEN t.req.body.params.uri
    ELSE t.req.body.params.arguments.uri

\* the text is one of the error descriptions fetch_resource_content returns
IsErrorText(text) ==
    \/ Take(text, Len(HttpErrorPrefix)) = HttpErrorPrefix
    \/ Take(text, Len(UnexpectedErrorPrefix)) = UnexpectedErrorPrefix

\* C22: fetch(uri) never raises to its caller: whatever the uri and whatever the
\* outbound request ends in, the call returns a text, and handle_request wraps
\* that text as the content of a result.
C22_FetchNeverRaises ==
    \A s \in Tasks :
        (FetchRequested(slot[s]) /\ slot[s].pc = "done")
            => /\ slot[s].run.kind = "return"
               /\ slot[s].run.calls # <<>>
               /\ "result" \in DOMAIN slot[s].run.value

\* the fetch_resource_content calls that return to the task in this step
ReturningCalls(s) ==
    IF slot'[s] = slot[s] THEN {}
    ELSE IF slot[s].pc = "await"
    THEN {slot'[s].run.calls[k] :
             k \in (Len(slot[s].run.calls) + 1)..Len(slot'[s].run.calls)}
    ELSE {slot'[s].run.calls[k] : k \in DOMAIN slot'[s].run.calls}

\* C23 as stated: every fetch(uri) that returns, the retrieval succeeded or
\* failed, leaves the cache holding the returned text under uri, error text
\* included.
C23_Original ==
    [][\A s \in Tasks : \A c \in ReturningCalls(s) :
          c.uri \in DOMAIN cached_docs' /\ cached_docs'[c.uri] = c.text]_vars

\* C23 amended: every fetch(uri) that returns the text of a page leaves the cache
\* holding exactly that text under uri; a fetch(uri) that returns an error
\* description has stored nothing and leaves the cache as it was.
C23_StoredOnSuccess ==
    [][\A s \in Tasks : \A c \in ReturningCalls(s) :
          IF IsErrorText(c.text)
          THEN cached_docs' = cached_docs
          ELSE c.uri \in DOMAIN cached_docs' /\ cached_docs'[c.uri] = c.text]_vars

\* a retrieval has failed and returned its error description while the cache
\* holds the page text that another call retrieved for the same uri
C23_Witness ==
    \E s, o \in Tasks :
        /\ slot[s].pc = "done" /\ slot[o].pc = "done"
        /\ \E c \in {slot[s].run.calls[k] : k \in DOMAIN slot[s].run.calls} :
              /\ c.outbound /\ IsErrorText(c.text)
              /\ c.uri \in DOMAIN cached_docs
              /\ \E d \in {slot[o].run.calls[k] : k \in DOMAIN slot[o].run.calls} :
                    d.outbound /\ d.uri = c.uri /\ d.text = cached_docs[c.uri]

\* the fetch made for the request failed: it raised, or it returned an error
\* description
FetchFailed(t) ==
    \/ t.run.calls = <<>>
    \/ IsErrorText(t.run.calls[1].text)

\* the text a result carries as the content of the resource
ContentOf(t) ==
    IF t.req.body.method = "resources/read"
    THEN t.run.value.result.contents[1].text
    ELSE t.run.value.result.content[1].text

\* C24: a resources/read with a non-empty uri, or a call of
\* get_llamaindex_resource, whose fetch fails is answered by handle_request with
\* a result (no error member) that carries the failure description as content.
C24_FailureAsContent ==
    \A s \in Tasks :
        (FetchRequested(slot[s]) /\ slot[s].pc = "done" /\ FetchFailed(slot[s]))
            => /\ slot[s].run.kind = "return"
               /\ DOMAIN slot[s].run.value = {"jsonrpc", "id", "result"}
               /\ IsErrorText(ContentOf(slot[s]))

\* C25: catalog discovery runs exactly once per process and has completed before
\* any request is dispatched: a task handles a request only after the hook has
\* run, and once it has run the catalog and the outcome of discovery stay as
\* they are.
C25_DiscoveryOnceBeforeDispatch ==
    /\ [](\A s \in Tasks : slot[s].pc # "idle" => started)
    /\ [][started => (started' /\ index' = index /\ resources' = resources)]_vars

\* a POST /rpc has been dispatched on the catalog that discovery built
C25_Witness ==
    \E s \in Tasks :
        /\ AnsweredPost(slot[s]) /\ Dispatched(slot[s])
        /\ started /\ index.kind = "ok" /\ resources # <<>>

\* the task has answered a resources/list
ListReturned(t) ==
    /\ AnsweredPost(t) /\ Dispatched(t)
    /\ t.req.body.method = "resources/list"
    /\ t.run.kind = "return"

\* C26: after bootstrap no request adds, removes, reorders or alters catalog
\* resources, and every resources/list returns the catalog, resource by
\* resource, in discovery order.
C26_CatalogImmutable ==
    /\ [][started => resources' = resources]_vars
    /\ [](\A s \in Tasks :
            ListReturned(slot[s])
                => LET listed == slot[s].run.value.result.resources
                   IN  /\ Len(listed) = Len(resources)
                       /\ \A k \in DOMAIN resources :
                             /\ listed[k].uri = resources[k].uri
                             /\ listed[k].name = resources[k].name
                             /\ listed[k].description = resources[k].description
                             /\ listed[k].mimeType = resources[k].mime_type)

\* the catalog of several resources has been listed after a page was fetched
\* and cached
C26_Witness ==
    \E s \in Tasks :
        /\ ListReturned(slot[s])
        /\ Len(slot[s].run.value.result.resources) >= 2
        /\ cached_docs # <<>>

\* C27: under any interleaving of concurrently handled requests the content
\* cache is insert-once: an entry, once there, is never removed and its text is
\* never replaced by a different text.
C27_CacheInsertOnce ==
    [][\A u \in DOMAIN cached_docs :
          u \in DOMAIN cached_docs' /\ cached_docs'[u] = cached_docs[u]]_vars

\* the task waits for the outbound GET of uri
InFlight(t, uri) == t.pc = "await" /\ t.run.uri = uri

\* C28: concurrent first-touch fetches of one uncached uri are not deduplicated:
\* a request that fetches a uri the cache does not hold sends its own outbound
\* GET even while another task's GET of that uri is in flight.
C28_NoDeduplication ==
    [][\A s, o \in Tasks :
          (/\ s # o
           /\ slot[s].pc # "await" /\ slot'[s] # slot[s]
           /\ FetchRequested(slot'[s])
           /\ FetchUriOf(slot'[s]) \in WellFormedUrls \ DOMAIN cached_docs
           /\ InFlight(slot[o], FetchUriOf(slot'[s])))
              => (InFlight(slot'[s], FetchUriOf(slot'[s])) /\ InFlight(slot'[o], slot[o].run.uri))]_vars

\* two requests have both missed the cache for one uri and both have an
\* outbound GET of it in flight
C28_Witness ==
    \E s, o \in Tasks :
        /\ s # o
        /\ FetchRequested(slot[s]) /\ FetchRequested(slot[o])
        /\ FetchUriOf(slot[s]) = FetchUriOf(slot[o])
        /\ FetchUriOf(slot[s]) \notin DOMAIN cached_docs
        /\ InFlight(slot[s], FetchUriOf(slot[s]))
        /\ InFlight(slot[o], FetchUriOf(slot[s]))

\* the task has answered a GET of the path
AnsweredGet(t, path) == t.pc = "done" /\ t.req.verb = "GET" /\ t.req.path = path

\* C29: GET / and GET /rpc are answered with HTTP 200 and their status payload
\* in every server state, without a call of handle_request and without a change
\* of catalog or cache.
C29_StatusRoutes ==
    /\ [](\A s \in Tasks :
            /\ AnsweredGet(slot[s], "/")
                  => /\ slot[s].resp.status = 200
                     /\ slot[s].resp.body.status = "MCP Server is running"
                     /\ ~slot[s].invoked /\ slot[s].run = NoRun
            /\ AnsweredGet(slot[s], "/rpc")
                  => /\ slot[s].resp.status = 200
                     /\ slot[s].resp.body = [status |-> "ok", method |-> "GET /rpc healthcheck"]
                     /\ ~slot[s].invoked /\ slot[s].run = NoRun)
    /\ [][\A s \in Tasks :
             (slot'[s] # slot[s] /\ slot'[s].req.verb = "GET")
                 => (resources' = resources /\ cached_docs' = cached_docs)]_vars

\* the healthcheck has answered while the cache holds a page
C29_Witness ==
    /\ cached_docs # <<>>
    /\ \E s \in Tasks : AnsweredGet(slot[s], "/rpc") /\ slot[s].resp.status = 200

\* the urls of the list without their repetitions, in first-seen order
RECURSIVE DistinctUrls(_, _)
DistinctUrls(urls, seen) ==
    IF urls = <<>> THEN <<>>
    ELSE IF Head(urls) \in seen THEN DistinctUrls(Tail(urls), seen)
    ELSE <<Head(urls)>> \o DistinctUrls(Tail(urls), seen \cup {Head(urls)})

\* the resolved urls of the qualifying links of the page, in page order
QualifyingUrls(page) ==
    LET links == SelectSeq(page, IsDocLink)
    IN  [k \in 1..Len(links) |-> links[k].url]

\* C30: on a successful discovery the catalog is the first N distinct qualifying
\* resolved urls of the index page in first-seen order, duplicates being removed
\* before the cut to N: it has exactly min(N, d) entries, d the number of
\* distinct qualifying urls of the page.
C30_FirstDistinct ==
    (started /\ index.kind = "ok")
        => LET distinct == DistinctUrls(QualifyingUrls(index.page), {})
               d == Len(distinct)
           IN  /\ Len(resources) = IF resource_limit < d THEN resource_limit ELSE d
               /\ [k \in 1..Len(resources) |-> resources[k].uri]
                     = Take(distinct, resource_limit)

\* the shapes of href that name the site's host, and those that name another
SameSiteForms == {"root_relative", "relative", "absolute_site"}
OffSiteForms == {"absolute_other", "absolute_mention", "protocol_relative"}

\* the uris of the catalog
CatalogUris == {resources[k].uri : k \in DOMAIN resources}

\* C31: discovery collects exactly the same-site links of the index page: every
\* link that is absolute with the site's host or relative, with a label longer
\* than 3 characters, is taken into the catalog (on a page with no more links than
\* the cap), and no catalogued uri is the target of a link to another host.
C31_SameSiteLinks ==
    (started /\ index.kind = "ok")
        => \A j \in DOMAIN index.page :
              LET link == index.page[j]
              IN  /\ (/\ link.href_form \in SameSiteForms
                      /\ Len(link.title) > 3
                      /\ Len(index.page) <= resource_limit)
                         => link.url \in CatalogUris
                  /\ link.href_form \in OffSiteForms => link.url \notin CatalogUris

\* the task has answered a tools/call of a registered tool whose arguments lack
\* the argument the tool's input schema requires
RequiredArgumentMissing(t) ==
    /\ AnsweredPost(t) /\ Dispatched(t)
    /\ t.req.body.method = "tools/call"
    /\ t.req.body.params.kind # "other"
    /\ t.req.body.params.arguments.kind # "other"
    /\ \/ /\ t.req.body.params.name = "search_llamaindex_docs"
          /\ t.req.body.params.arguments.query.kind = "none"
       \/ /\ t.req.body.params.name = "get_llamaindex_resource"
          /\ t.req.body.params.arguments.uri = UriNone

\* C32: a tools/call that omits the required argument of the named tool (query
\* for search_llamaindex_docs, uri for get_llamaindex_resource) is answered with an
\* error of code -32602.
C32_RequiredArgument ==
    \A s \in Tasks :
        RequiredArgumentMissing(slot[s])
            => /\ slot[s].run.kind = "return"
               /\ IsError(slot[s].run.value, InvalidParamsCode)

\* the uris of the content fetches a search has made, the one in flight included
FetchedUris(t) ==
    [k \in 1..Len(t.run.calls) |-> t.run.calls[k].uri]
        \o (IF t.run.kind = "await" THEN <<t.run.uri>> ELSE <<>>)

\* C33: every dispatched request eventually produces a response: a task that
\* waits for an outbound GET is answered in the end, given that every outbound
\* GET ends (by returning, failing or timing out); a timeout is returned as an
\* error description like every other failure, and a search fetches each catalog
\* resource at most once.
C33_EventuallyAnswered ==
    /\ \A s \in {"h1", "h2"} : (slot[s].pc = "await") ~> (slot[s].pc = "done")
    /\ [](\A s \in Tasks :
            /\ SearchTask(slot[s])
                  => /\ Len(FetchedUris(slot[s])) <= Len(resources)
                     /\ \A j, k \in DOMAIN FetchedUris(slot[s]) :
                           FetchedUris(slot[s])[j] = FetchedUris(slot[s])[k] => j = k
            /\ \A k \in DOMAIN slot[s].run.calls :
                  (slot[s].run.calls[k].text
                      = HttpErrorPrefix \o <<"t","i","m","e","d"," ","o","u","t">>)
                     => slot[s].run.kind # "raise")

\* a search has been answered after three outbound GETs, one of which timed out
C33_Witness ==
    \E s \in Tasks :
        /\ SearchTask(slot[s]) /\ slot[s].pc = "done"
        /\ Len(slot[s].run.calls) = 3
        /\ \A k \in 1..3 : slot[s].run.calls[k].outbound
        /\ \E k \in 1..3 : IsErrorText(slot[s].run.calls[k].text)

\* C34: a search content-fetches only candidate resources: every uri it fetches,
\* the one in flight included, is the uri of a catalog resource whose name or
\* description holds the query, so no outbound request goes out and no cache entry
\* is made for any other resource.
C34_OnlyCandidatesFetched ==
    \A s \in Tasks :
        SearchTask(slot[s])
            => \A n \in DOMAIN FetchedUris(slot[s]) :
                  \E k \in DOMAIN resources :
                      /\ resources[k].uri = FetchedUris(slot[s])[n]
                      /\ \/ Contains(QueryLowerOf(slot[s]), lower(resources[k].name))
                         \/ Contains(QueryLowerOf(slot[s]), lower(resources[k].description))

\* a search of a catalog of three resources has returned after fetching the one
\* resource that is a candidate
C34_Witness ==
    \E s \in Tasks :
        /\ SearchTask(slot[s]) /\ slot[s].pc = "done"
        /\ Len(resources) = 3
        /\ QueryLowerOf(slot[s]) = lower(QueryAgents)
        /\ FetchedUris(slot[s]) = <<UriAgents>>
        /\ slot[s].run.calls[1].outbound

\* the catalog resources whose name or description holds the query, in catalog
\* order
CandidatesOf(t) ==
    SelectSeq(resources, LAMBDA r : \/ Contains(QueryLowerOf(t), lower(r.name))
                                    \/ Contains(QueryLowerOf(t), lower(r.description)))

\* the content fetches of the search that returned a content holding the query,
\* in the order they were made
MatchingCalls(t) ==
    SelectSeq(t.run.calls, LAMBDA c : Contains(QueryLowerOf(t), lower(c.text)))

\* C35: a search with a limit >= 1 returns the first min(limit, m) matching
\* resources in catalog order: it visits the candidates in catalog order, returns
\* one entry for every visited candidate whose content holds the query, in that
\* order and skipping none, and leaves candidates unvisited only when it has
\* collected limit entries.
C35_FirstMatchesInOrder ==
    \A s \in Tasks :
        (SearchReturned(slot[s]) /\ limit_of(slot[s].req.body.params.arguments).v >= 1)
            => LET t == slot[s]
                   limit == limit_of(t.req.body.params.arguments).v
                   cands == CandidatesOf(t)
                   matches == MatchingCalls(t)
               IN  /\ Len(t.run.calls) <= Len(cands)
                   /\ \A k \in DOMAIN t.run.calls : t.run.calls[k].uri = cands[k].uri
                   /\ Len(t.run.results) = Len(matches)
                   /\ \A n \in DOMAIN t.run.results :
                         t.run.results[n].uri = matches[n].uri
                   /\ Len(t.run.results) <= limit
                   /\ Len(t.run.calls) < Len(cands) => Len(t.run.results) = limit

\* a search with the limit 2 over three candidates returned the first and the
\* third, the content of the second not holding the query
C35_Witness ==
    /\ \E s \in Tasks :
          /\ SearchReturned(slot[s])
          /\ limit_of(slot[s].req.body.params.arguments).v = 2
          /\ Len(CandidatesOf(slot[s])) = 3
          /\ Len(slot[s].run.calls) = 3
          /\ Len(slot[s].run.results) = 2
          /\ slot[s].run.results[1].uri = CandidatesOf(slot[s])[1].uri
          /\ slot[s].run.results[2].uri = CandidatesOf(slot[s])[3].uri

\* the uris whose cache entry this step makes or changes
StoredUris ==
    {u \in DOMAIN cached_docs' : u \notin DOMAIN cached_docs \/ cached_docs'[u] # cached_docs[u]}

\* this step hands the task a request that fetches a watched uri whose first
\* fetch failed and that the cache does not hold
RefetchOfFailed(s) ==
    /\ slot[s].pc # "await" /\ slot'[s] # slot[s]
    /\ FetchRequested(slot'[s])
    /\ FetchUriOf(slot'[s]) \in DOMAIN hist
    /\ hist[FetchUriOf(slot'[s])].returned
    /\ IsErrorText(hist[FetchUriOf(slot'[s])].first)
    /\ FetchUriOf(slot'[s]) \notin DOMAIN cached_docs

\* C36: a fetch whose retrieval fails leaves the content cache unchanged; every
\* text the cache comes to hold under a uri is the text of a successful retrieval
\* of that uri, returned in the same step; and a fetch of a uri whose earlier
\* fetch failed, the cache not holding the uri, issues a new outbound request.
C36_FailureNotCached ==
    /\ [][\A s \in Tasks : \A c \in ReturningCalls(s) :
             (c.outbound /\ IsErrorText(c.text)) => cached_docs' = cached_docs]_vars
    /\ [][\A u \in StoredUris :
             \E s \in Tasks : \E c \in ReturningCalls(s) :
                 /\ c.outbound /\ c.uri = u
                 /\ ~IsErrorText(c.text) /\ c.text = cached_docs'[u]]_vars
    /\ [][\A s \in Tasks :
             RefetchOfFailed(s)
                 => /\ slot'[s].pc = "await"
                    /\ slot'[s].run.uri = FetchUriOf(slot'[s])]_vars

\* the first fetch of the watched uri failed, and a fetch that began after it had
\* returned went out again and brought the page the cache now holds
C36_Witness ==
    /\ hist[UriAgents].returned /\ IsErrorText(hist[UriAgents].first)
    /\ UriAgents \in DOMAIN cached_docs
    /\ \E s \in Tasks :
          /\ FetchRequested(slot[s]) /\ slot[s].pc = "done"
          /\ slot[s].run.calls # <<>>
          /\ slot[s].run.calls[1].uri = UriAgents
          /\ slot[s].run.calls[1].later /\ slot[s].run.calls[1].outbound
          /\ slot[s].run.calls[1].text = cached_docs[UriAgents]

\* handle_request answered the request with a JSON-RPC error
AnsweredWithError(t) ==
    /\ Dispatched(t) /\ t.pc = "done" /\ t.run.kind = "return"
    /\ "error" \in DOMAIN t.run.value

\* the request names a method or a tool that calls fetch_resource_content
MayFetch(t) ==
    /\ Dispatched(t)
    /\ \/ t.req.body.method = "resources/read"
       \/ /\ t.req.body.method = "tools/call"
          /\ t.req.body.params.kind # "other"
          /\ t.req.body.params.name \in ToolNames

\* C37: initialize, resources/list, tools/list and every request that is answered
\* with a dispatcher error have issued no outbound request and have left the
\* cache as it was; the cache changes only in a step taken for a resources/read
\* or a call of one of the two tools; and tools/list always returns the same two
\* tool descriptors.
C37_DispatcherStateless ==
    /\ [](\A s \in Tasks :
            /\ (Dispatched(slot[s]) /\ slot[s].pc # "idle"
                    /\ (\/ slot[s].req.body.method \in {"initialize", "resources/list",
                                                         "tools/list"}
                        \/ AnsweredWithError(slot[s])))
                  => \A k \in DOMAIN slot[s].run.calls : ~slot[s].run.calls[k].outbound
            /\ (Dispatched(slot[s]) /\ slot[s].pc = "done"
                    /\ slot[s].req.body.method = "tools/list")
                  => /\ slot[s].run.kind = "return"
                     /\ slot[s].run.value.result = [tools |-> tools]
                     /\ Len(tools) = 2)
    /\ [][cached_docs' # cached_docs
             => \E s \in Tasks : slot'[s] # slot[s] /\ MayFetch(slot'[s])]_vars
====
